---- MODULE Spec2Model ----
(***************************************************************************)
(* Drought Prediction & Tanker Allocation backend (src/main.py).           *)
(*                                                                         *)
(* Numbers.  The program computes in binary floating point and rounds to   *)
(* 4 decimals (scores) or 2 decimals (litres).  Here a score is the        *)
(* integer 10000 * score, a volume is the integer 100 * litres, and the    *)
(* unrounded intermediate values are exact fractions <<num, den>>.         *)
(* Rounding is round-half-to-even, as Python's round().                    *)
(***************************************************************************)
EXTENDS Integers, Sequences, FiniteSets, TLC

VARIABLES
    latest_analysis,   \* the module-level list `latest_analysis`
    succeeded,         \* history: some POST /analyze has returned 200
    apc,               \* position of the /analyze handler
    arequest,          \* body of the /analyze request being served
    aresponse,         \* its response
    dpc,               \* position of the /dashboard handler
    dresponse,         \* the /dashboard response under construction
    rpc,               \* position of the /routes handler
    rresponse          \* the /routes response under construction

vars == <<latest_analysis, succeeded, apc, arequest, aresponse,
          dpc, dresponse, rpc, rresponse>>

\* Longest batch a client submits.
MaxBatch == 2

\* round(x, 4): scores are kept as 10000 * score.
ScoreScale == 10000

\* round(x, 2): volumes are kept as 100 * litres.
LitreScale == 100

\* litres per person per day
LitresPerPerson == 135

\* litres per tanker
TankerCapacity == 10000

----------------------------------------------------------------------------
(* Exact fractions *)

Abs(x) == IF x < 0 THEN -x ELSE x

RECURSIVE GCD(_, _)
GCD(a, b) == IF b = 0 THEN a ELSE GCD(b, a % b)

\* n / d for d # 0, in lowest terms with a positive denominator
Rat(n, d) ==
    LET g == GCD(Abs(n), Abs(d))
        s == IF d < 0 THEN -1 ELSE 1
    IN  <<(s * n) \div g, (s * d) \div g>>

RatAdd(p, q) == Rat(p[1] * q[2] + q[1] * p[2], p[2] * q[2])

RatMul(p, q) == Rat(p[1] * q[1], p[2] * q[2])

\* max(0.0, min(1.0, x))
clamp01(q) ==
    IF q[1] < 0 THEN <<0, 1>>
    ELSE IF q[1] > q[2] THEN <<1, 1>>
    ELSE q

\* round(q, digits) as the integer scale * round(q), ties to even
round(q, scale) ==
    LET n == q[1] * scale
        f == n \div q[2]
        r == n % q[2]
    IN  IF 2 * r < q[2] THEN f
        ELSE IF 2 * r > q[2] THEN f + 1
        ELSE IF f % 2 = 0 THEN f ELSE f + 1

\* math.ceil(n / d) for d > 0
ceil(n, d) == IF n % d = 0 THEN n \div d ELSE (n \div d) + 1

----------------------------------------------------------------------------
(* Core calculation functions *)

RainWeight == <<4, 10>>
GroundwaterWeight == <<3, 10>>
PopulationWeight == <<3, 10>>

compute_wsi_swapped(normal_rainfall, actual_rainfall, groundwater_level, population, max_population) ==
    LET rainfall_deviation ==
            clamp01(Rat(normal_rainfall - actual_rainfall, normal_rainfall))
        groundwater_decline == clamp01(Rat(100 - groundwater_level, 100))
        population_factor == clamp01(Rat(population, max_population))
        wsi == RatAdd(RatAdd(RatMul(GroundwaterWeight, rainfall_deviation),
                             RatMul(RainWeight, groundwater_decline)),
                      RatMul(PopulationWeight, population_factor))
    IN  [wsi |-> round(wsi, ScoreScale),
         rainfall_deviation |-> round(rainfall_deviation, ScoreScale),
         groundwater_decline |-> round(groundwater_decline, ScoreScale),
         population_factor |-> round(population_factor, ScoreScale)]

compute_wsi(normal_rainfall, actual_rainfall, groundwater_level, population, max_population) ==
    LET rainfall_deviation ==
            clamp01(Rat(normal_rainfall - actual_rainfall, normal_rainfall))
        groundwater_decline == clamp01(Rat(100 - groundwater_level, 100))
        population_factor == clamp01(Rat(population, max_population))
        wsi == RatAdd(RatAdd(RatMul(RainWeight, rainfall_deviation),
                             RatMul(GroundwaterWeight, groundwater_decline)),
                      RatMul(PopulationWeight, population_factor))
    IN  [wsi |-> round(wsi, ScoreScale),
         rainfall_deviation |-> round(rainfall_deviation, ScoreScale),
         groundwater_decline |-> round(groundwater_decline, ScoreScale),
         population_factor |-> round(population_factor, ScoreScale)]

get_stress_level(wsi) ==
    IF 10 * wsi < 3 * ScoreScale THEN "safe"
    ELSE IF 10 * wsi <= 6 * ScoreScale THEN "moderate"
    ELSE "critical"

compute_tankers_undamped(population, groundwater_level) ==
    LET daily_need == population * LitresPerPerson * LitreScale
        available_water == population * groundwater_level * LitreScale
        deficit == IF daily_need - available_water > 0
                   THEN daily_need - available_water ELSE 0
    IN  [daily_need_litres |-> daily_need,
         available_water_litres |-> available_water,
         deficit_litres |-> deficit,
         tankers_needed |-> ceil(deficit, TankerCapacity * LitreScale)]

compute_tankers(population, groundwater_level) ==
    LET daily_need == population * LitresPerPerson * LitreScale
        available_water == (population * groundwater_level * LitreScale) \div 2
        deficit == IF daily_need - available_water > 0
                   THEN daily_need - available_water ELSE 0
    IN  [daily_need_litres |-> daily_need,
         available_water_litres |-> available_water,
         deficit_litres |-> deficit,
         tankers_needed |-> ceil(deficit, TankerCapacity * LitreScale)]

compute_priority_score(wsi, population_factor) ==
    round(Rat(7 * wsi + 3 * population_factor, 10 * ScoreScale), ScoreScale)

analyze_region(region) ==
    LET wsi_data == compute_wsi(region.normal_rainfall, region.actual_rainfall,
                                region.groundwater_level, region.population,
                                region.max_population)
        stress_level == get_stress_level(wsi_data.wsi)
        tanker_data == compute_tankers(region.population,
                                       region.groundwater_level)
        priority == compute_priority_score(wsi_data.wsi,
                                           wsi_data.population_factor)
    IN  [region_id |-> region.region_id,
         region_name |-> region.region_name,
         population |-> region.population,
         wsi |-> wsi_data.wsi,
         stress_level |-> stress_level,
         components |->
            [rainfall_deviation |-> wsi_data.rainfall_deviation,
             groundwater_decline |-> wsi_data.groundwater_decline,
             population_factor |-> wsi_data.population_factor],
         tanker_allocation |-> tanker_data,
         priority_score |-> priority]

----------------------------------------------------------------------------
(* Requests *)

RegionInput(id, name, pop, normal, actual, gw, maxpop) ==
    [region_id |-> id, region_name |-> name, population |-> pop,
     normal_rainfall |-> normal, actual_rainfall |-> actual,
     groundwater_level |-> gw, max_population |-> maxpop]

\* The regions clients submit.  R001 and R002 are the documented example
\* request; R003 has R002's measurements; R004 has groundwater far above
\* 100; R005..R009 each break one documented input constraint.
Regions ==
    << RegionInput("R001", "Nagpur East", 45000, 800, 320, 35, 100000),
       RegionInput("R002", "Wardha Rural", 12000, 750, 600, 65, 100000),
       RegionInput("R003", "Wardha Urban", 12000, 750, 600, 65, 100000),
       RegionInput("R004", "Flooded", 1000, 800, 0, 300, 1000),
       RegionInput("R005", "Negative normal rainfall",
                   10000, -800, 320, 50, 100000),
       RegionInput("R006", "Negative max population",
                   5000, 800, 800, 0, -100000),
       RegionInput("R007", "Zero normal rainfall",
                   10000, 0, 320, 50, 100000),
       RegionInput("R008", "Zero max population", 10000, 800, 320, 50, 0),
       RegionInput("R009", "Nobody", 0, 800, 320, 50, 100000) >>

RegionPool == {Regions[i] : i \in DOMAIN Regions}

InputOf(id) == CHOOSE r \in RegionPool : r.region_id = id

Batches == UNION {[1..n -> RegionPool] : n \in 0..MaxBatch}

\* The submissions of the overlapping-requests specification.
ConcBatches ==
    { << >>, <<Regions[1]>>, <<Regions[2], Regions[4]>>, <<Regions[7]>> }

\* RegionInput: population: int = Field(..., gt=0); nothing else constrained
field_constraints_hold(region) == region.population > 0

\* the divisions of compute_wsi raise ZeroDivisionError
raises_ZeroDivisionError(region) ==
    region.normal_rainfall = 0 \/ region.max_population = 0

----------------------------------------------------------------------------
(* results.sort(key=lambda x: x["priority_score"], reverse=True) *)

\* x goes behind every element whose key is >= its own
insert_stable(sorted, x) ==
    LET ahead == {i \in 1..Len(sorted) :
                    sorted[i].priority_score >= x.priority_score}
        k == Cardinality(ahead)
    IN  SubSeq(sorted, 1, k) \o <<x>> \o SubSeq(sorted, k + 1, Len(sorted))

insert_before_equal(sorted, x) ==
    LET ahead == {i \in 1..Len(sorted) :
                    sorted[i].priority_score > x.priority_score}
        k == Cardinality(ahead)
    IN  SubSeq(sorted, 1, k) \o <<x>> \o SubSeq(sorted, k + 1, Len(sorted))

RECURSIVE sort_from(_, _, _)
sort_from(results, i, sorted) ==
    IF i > Len(results) THEN sorted
    ELSE sort_from(results, i + 1, insert_stable(sorted, results[i]))

RECURSIVE sort_unstable_from(_, _, _)
sort_unstable_from(results, i, sorted) ==
    IF i > Len(results) THEN sorted
    ELSE sort_unstable_from(results, i + 1,
                            insert_before_equal(sorted, results[i]))

sort_not_called(results) == results

sort_unstable(results) == sort_unstable_from(results, 1, << >>)

sort(results) == sort_from(results, 1, << >>)

----------------------------------------------------------------------------
(* Aggregation helpers *)

RECURSIVE sum(_)
sum(numbers) ==
    IF numbers = << >> THEN 0 ELSE Head(numbers) + sum(Tail(numbers))

tankers_of(results) ==
    [i \in 1..Len(results) |-> results[i].tanker_allocation.tankers_needed]

deficits_of(results) ==
    [i \in 1..Len(results) |-> results[i].tanker_allocation.deficit_litres]

wsi_of(results) == [i \in 1..Len(results) |-> results[i].wsi]

with_level(results, level) ==
    SelectSeq(results, LAMBDA r : r.stress_level = level)

first_five(results) ==
    SubSeq(results, 1, IF Len(results) < 5 THEN Len(results) ELSE 5)

NoDataMessage == "No analysis data yet. Call POST /analyze first."

\* a handler that is not running holds nothing
Nothing == [running |-> FALSE]

\* `not request.regions`
no_regions_never(regions) == FALSE

no_regions(regions) == regions = << >>

\* `not latest_analysis`
no_data_or_single(analysis) == Len(analysis) <= 1

no_data(analysis) == analysis = << >>

----------------------------------------------------------------------------
(* POST /analyze *)

analyze(regions) ==
    /\ apc = "idle"
    /\ apc' = "done"
    /\ arequest' = regions
    /\ IF \E i \in 1..Len(regions) : ~field_constraints_hold(regions[i])
       THEN \* request validation fails before the handler body runs
            /\ aresponse' = [status_code |-> 422]
            /\ UNCHANGED <<latest_analysis, succeeded>>
       ELSE IF no_regions(regions)
       THEN /\ aresponse' = [status_code |-> 400,
                             detail |-> "No regions provided."]
            /\ UNCHANGED <<latest_analysis, succeeded>>
       ELSE IF \E i \in 1..Len(regions) : raises_ZeroDivisionError(regions[i])
       THEN \* the exception leaves the handler before the assignment
            /\ aresponse' = [status_code |-> 500]
            /\ UNCHANGED <<latest_analysis, succeeded>>
       ELSE LET results ==
                    sort([i \in 1..Len(regions) |-> analyze_region(regions[i])])
            IN  /\ latest_analysis' = results
                /\ succeeded' = TRUE
                /\ aresponse' =
                     [status_code |-> 200,
                      success |-> TRUE,
                      summary |->
                        [total_regions |-> Len(results),
                         critical_count |-> Len(with_level(results, "critical")),
                         moderate_count |-> Len(with_level(results, "moderate")),
                         safe_count |-> Len(with_level(results, "safe")),
                         total_tankers_needed |-> sum(tankers_of(results))],
                      regions |-> results]
    /\ UNCHANGED <<dpc, dresponse, rpc, rresponse>>

\* the response has been sent
analyze_return ==
    /\ apc = "done"
    /\ apc' = "idle"
    /\ arequest' = << >>
    /\ aresponse' = Nothing
    /\ UNCHANGED <<latest_analysis, succeeded, dpc, dresponse, rpc, rresponse>>

----------------------------------------------------------------------------
(* GET /dashboard: one action per read of the global latest_analysis.      *)
(* Until the handler returns, dresponse holds its local variables.         *)

dashboard_locals ==
    [total_tankers |-> 0, wsi_sum |-> 0, avg_wsi |-> 0, total_deficit |-> 0,
     critical |-> 0, moderate |-> 0, safe |-> 0, top_critical |-> << >>,
     total_regions_analysed |-> 0]

dashboard_step(from, to, locals) ==
    /\ dpc = from
    /\ dpc' = to
    /\ dresponse' = locals
    /\ UNCHANGED <<latest_analysis, succeeded, apc, arequest, aresponse,
                   rpc, rresponse>>

\* line 248
dashboard_check ==
    IF no_data(latest_analysis)
    THEN dashboard_step("idle", "done",
            [success |-> TRUE, message |-> NoDataMessage])
    ELSE dashboard_step("idle", "total_tankers", dashboard_locals)

\* line 255
dashboard_total_tankers ==
    dashboard_step("total_tankers", "wsi_sum",
        [dresponse EXCEPT !.total_tankers = sum(tankers_of(latest_analysis))])

\* line 256, the numerator
dashboard_wsi_sum ==
    dashboard_step("wsi_sum", "avg_wsi",
        [dresponse EXCEPT !.wsi_sum = sum(wsi_of(latest_analysis))])

\* line 256, the denominator and the rounding
dashboard_avg_wsi ==
    dashboard_step("avg_wsi", "total_deficit",
        [dresponse EXCEPT
            !.avg_wsi = round(Rat(dresponse.wsi_sum, Len(latest_analysis)), 1)])

\* line 257
dashboard_total_deficit ==
    dashboard_step("total_deficit", "critical",
        [dresponse EXCEPT !.total_deficit = sum(deficits_of(latest_analysis))])

\* line 260
dashboard_critical ==
    dashboard_step("critical", "moderate",
        [dresponse EXCEPT
            !.critical = Len(with_level(latest_analysis, "critical"))])

\* line 261
dashboard_moderate ==
    dashboard_step("moderate", "safe",
        [dresponse EXCEPT
            !.moderate = Len(with_level(latest_analysis, "moderate"))])

\* line 262
dashboard_safe ==
    dashboard_step("safe", "top_critical",
        [dresponse EXCEPT !.safe = Len(with_level(latest_analysis, "safe"))])

\* line 266
dashboard_top_critical ==
    dashboard_step("top_critical", "total_regions",
        [dresponse EXCEPT !.top_critical = first_five(latest_analysis)])

\* line 271
dashboard_total_regions ==
    dashboard_step("total_regions", "all_regions",
        [dresponse EXCEPT !.total_regions_analysed = Len(latest_analysis)])

\* the response dict of lines 268-279, given the locals and the last read
dashboard_response(locals, all_regions) ==
    [success |-> TRUE,
     kpis |-> [total_regions_analysed |-> locals.total_regions_analysed,
               average_wsi |-> locals.avg_wsi,
               total_tankers_needed |-> locals.total_tankers,
               total_water_deficit_litres |-> locals.total_deficit],
     stress_distribution |-> [critical |-> locals.critical,
                              moderate |-> locals.moderate,
                              safe |-> locals.safe],
     top_critical_regions |-> locals.top_critical,
     all_regions |-> all_regions]

\* line 278
dashboard_all_regions ==
    dashboard_step("all_regions", "done",
        dashboard_response(dresponse, latest_analysis))

dashboard_return == dashboard_step("done", "idle", Nothing)

----------------------------------------------------------------------------
(* GET /routes *)

routes_step(from, to, response) ==
    /\ rpc = from
    /\ rpc' = to
    /\ rresponse' = response
    /\ UNCHANGED <<latest_analysis, succeeded, apc, arequest, aresponse,
                   dpc, dresponse>>

\* line 311
includes_idle_regions(r) == r.tanker_allocation.tankers_needed >= 0

needs_tankers(r) == r.tanker_allocation.tankers_needed > 0

\* lines 300-309; idx is enumerate's 0-based index
dispatch_entry(idx, r) ==
    [dispatch_order |-> idx + 1,
     region_id |-> r.region_id,
     region_name |-> r.region_name,
     stress_level |-> r.stress_level,
     priority_score |-> r.priority_score,
     tankers_to_dispatch |-> r.tanker_allocation.tankers_needed,
     deficit_litres |-> r.tanker_allocation.deficit_litres,
     population |-> r.population]

\* the comprehension of lines 299-312 from index idx on
RECURSIVE dispatch_from(_, _)
dispatch_from(analysis, idx) ==
    IF idx >= Len(analysis) THEN << >>
    ELSE (IF needs_tankers(analysis[idx + 1])
          THEN <<dispatch_entry(idx, analysis[idx + 1])>>
          ELSE << >>)
         \o dispatch_from(analysis, idx + 1)

dispatch_list(analysis) == dispatch_from(analysis, 0)

\* line 291
routes_check ==
    IF no_data(latest_analysis)
    THEN routes_step("idle", "done",
            [success |-> TRUE, message |-> NoDataMessage, routes |-> << >>])
    ELSE routes_step("idle", "dispatch_list", Nothing)

\* lines 299-318
routes_dispatch_list ==
    LET list == dispatch_list(latest_analysis)
    IN  routes_step("dispatch_list", "done",
            [success |-> TRUE,
             total_tankers_dispatching |->
                sum([i \in 1..Len(list) |-> list[i].tankers_to_dispatch]),
             routes |-> list])

routes_return == routes_step("done", "idle", Nothing)

----------------------------------------------------------------------------
(* Specifications *)

Init ==
    /\ latest_analysis = << >>
    /\ succeeded = FALSE
    /\ apc = "idle" /\ arequest = << >> /\ aresponse = Nothing
    /\ dpc = "idle" /\ dresponse = Nothing
    /\ rpc = "idle" /\ rresponse = Nothing

\* no handler is running
quiescent == apc = "idle" /\ dpc = "idle" /\ rpc = "idle"

\* Requests served one at a time.
Submit == \E regions \in Batches : quiescent /\ analyze(regions)

GetSummary == quiescent /\ dashboard_check

GetRoutes == quiescent /\ routes_check

Next ==
    \/ Submit
    \/ analyze_return
    \/ GetSummary
    \/ dashboard_total_tankers
    \/ dashboard_wsi_sum
    \/ dashboard_avg_wsi
    \/ dashboard_total_deficit
    \/ dashboard_critical
    \/ dashboard_moderate
    \/ dashboard_safe
    \/ dashboard_top_critical
    \/ dashboard_total_regions
    \/ dashboard_all_regions
    \/ dashboard_return
    \/ GetRoutes
    \/ routes_dispatch_list
    \/ routes_return

Spec == Init /\ [][Next]_vars

\* Overlapping requests: the handlers run in worker threads, and a thread
\* switch can fall between any two reads of latest_analysis.
SubmitConc == \E regions \in ConcBatches : analyze(regions)

NextConc ==
    \/ SubmitConc
    \/ analyze_return
    \/ dashboard_check
    \/ dashboard_total_tankers
    \/ dashboard_wsi_sum
    \/ dashboard_avg_wsi
    \/ dashboard_total_deficit
    \/ dashboard_critical
    \/ dashboard_moderate
    \/ dashboard_safe
    \/ dashboard_top_critical
    \/ dashboard_total_regions
    \/ dashboard_all_regions
    \/ dashboard_return
    \/ routes_check
    \/ routes_dispatch_list
    \/ routes_return

SpecConc == Init /\ [][NextConc]_vars

----------------------------------------------------------------------------
(* Properties *)

is_placeholder(response) == "message" \in DOMAIN response

violates_precondition(region) ==
    region.normal_rainfall <= 0 \/ region.max_population <= 0

\* what a dispatch entry and a result have in common
same_region(entry, r) ==
    /\ entry.region_id = r.region_id
    /\ entry.region_name = r.region_name
    /\ entry.stress_level = r.stress_level
    /\ entry.priority_score = r.priority_score
    /\ entry.tankers_to_dispatch = r.tanker_allocation.tankers_needed
    /\ entry.deficit_litres = r.tanker_allocation.deficit_litres
    /\ entry.population = r.population

\* the values latest_analysis takes under SpecConc
ConcBatchStates ==
    { << >> } \cup
    { sort([i \in 1..Len(b) |-> analyze_region(b[i])]) :
        b \in {c \in ConcBatches :
                 /\ c # << >>
                 /\ \A i \in 1..Len(c) :
                        /\ field_constraints_hold(c[i])
                        /\ ~raises_ZeroDivisionError(c[i])} }

\* the /dashboard response when every read sees the same list
dashboard_of(analysis) ==
    IF analysis = << >>
    THEN [success |-> TRUE, message |-> NoDataMessage]
    ELSE [success |-> TRUE,
          kpis |-> [total_regions_analysed |-> Len(analysis),
                    average_wsi |->
                        round(Rat(sum(wsi_of(analysis)), Len(analysis)), 1),
                    total_tankers_needed |-> sum(tankers_of(analysis)),
                    total_water_deficit_litres |-> sum(deficits_of(analysis))],
          stress_distribution |->
                   [critical |-> Len(with_level(analysis, "critical")),
                    moderate |-> Len(with_level(analysis, "moderate")),
                    safe |-> Len(with_level(analysis, "safe"))],
          top_critical_regions |-> first_five(analysis),
          all_regions |-> analysis]

\* the /routes response when every read sees the same list
routes_of(analysis) ==
    IF analysis = << >>
    THEN [success |-> TRUE, message |-> NoDataMessage, routes |-> << >>]
    ELSE LET list == dispatch_list(analysis)
         IN  [success |-> TRUE,
              total_tankers_dispatching |->
                 sum([i \in 1..Len(list) |-> list[i].tankers_to_dispatch]),
              routes |-> list]

\* C1: the routes list returned by /routes carries dispatch_order values
\* 1, 2, ..., k in list order, also when zero-tanker regions sit ahead of
\* included regions in the batch.
C1_DispatchOrderContiguous ==
    rpc = "done" =>
        \A i \in 1..Len(rresponse.routes) :
            rresponse.routes[i].dispatch_order = i

\* C2: with /analyze running concurrently, every /dashboard and /routes
\* response is derived from a single value of latest_analysis, never from a
\* mixture of two.
C2_SingleSnapshot ==
    /\ dpc = "done" => \E a \in ConcBatchStates : dresponse = dashboard_of(a)
    /\ rpc = "done" => \E a \in ConcBatchStates : rresponse = routes_of(a)

\* C3: a batch with a region whose normal_rainfall or max_population is
\* zero or negative is rejected and leaves latest_analysis as it was.
C3_InvalidBatchRejected ==
    [][(/\ apc = "idle" /\ apc' = "done"
        /\ \E i \in 1..Len(arequest') : violates_precondition(arequest'[i]))
       => (/\ aresponse'.status_code # 200
           /\ latest_analysis' = latest_analysis)]_vars

\* C4: an empty batch is rejected with an error and latest_analysis after
\* the call is what it was before, whatever was submitted earlier.
C4_EmptyBatchRejected ==
    [][(apc = "idle" /\ apc' = "done" /\ arequest' = << >>)
       => (/\ aresponse'.status_code = 400
           /\ latest_analysis' = latest_analysis)]_vars

C4_Witness ==
    /\ apc = "done" /\ arequest = << >>
    /\ aresponse.status_code = 400
    /\ Len(latest_analysis) = 2

\* C5: latest_analysis is always ordered non-increasingly by priority_score.
C5_SortedByPriority ==
    \A i \in 1..(Len(latest_analysis) - 1) :
        latest_analysis[i].priority_score
            >= latest_analysis[i + 1].priority_score

C5_Witness ==
    /\ apc = "done" /\ aresponse.status_code = 200
    /\ Len(arequest) = 2
    /\ arequest[1].region_id = "R002" /\ arequest[2].region_id = "R001"
    /\ latest_analysis[1].region_id = "R001"
    /\ latest_analysis[1].priority_score > latest_analysis[2].priority_score

\* C6: for a non-empty latest_analysis the routes list holds exactly the
\* regions with tankers_needed > 0, in the order they have in latest_analysis.
C6_DispatchIsFilter ==
    (rpc = "done" /\ ~is_placeholder(rresponse)) =>
        LET list == rresponse.routes
            n == Len(latest_analysis)
            k == Len(list)
        IN  \E f \in [1..k -> 1..n] :
                /\ \A i \in 1..k : same_region(list[i], latest_analysis[f[i]])
                /\ \A i \in 1..k : \A j \in 1..k : i < j => f[i] < f[j]
                /\ {f[i] : i \in 1..k} =
                     {j \in 1..n :
                        latest_analysis[j].tanker_allocation.tankers_needed > 0}

C6_Witness ==
    /\ rpc = "done" /\ ~is_placeholder(rresponse)
    /\ Len(latest_analysis) = 2
    /\ Len(rresponse.routes) = 1
    /\ latest_analysis[1].tanker_allocation.tankers_needed = 0

\* the documented example region
is_example(in) ==
    /\ in.normal_rainfall = 800 /\ in.actual_rainfall = 320
    /\ in.groundwater_level = 35 /\ in.population = 45000
    /\ in.max_population = 100000

\* the formulas the example is checked against, in fixed point
follows_formulas(r) ==
    /\ 10 * r.wsi = 4 * r.components.rainfall_deviation
                     + 3 * r.components.groundwater_decline
                     + 3 * r.components.population_factor
    /\ 10 * r.priority_score = 7 * r.wsi + 3 * r.components.population_factor

\* the values on which the code and the documented example agree
example_volumes(r) ==
    /\ r.components.rainfall_deviation = 6000
    /\ r.components.groundwater_decline = 6500
    /\ r.components.population_factor = 4500
    /\ r.tanker_allocation.daily_need_litres = 6075000 * LitreScale
    /\ r.tanker_allocation.available_water_litres = 787500 * LitreScale
    /\ r.tanker_allocation.deficit_litres = 5287500 * LitreScale
    /\ r.tanker_allocation.tankers_needed = 529

\* C7 as stated: the region 800 / 320 / 35 / 45000 / 100000 is analysed as
\* rainfall_deviation 0.6, groundwater_decline 0.65, population_factor 0.45,
\* WSI 0.615, critical, daily need 6,075,000, available 787,500, deficit
\* 5,287,500, 529 tankers, priority 0.5655.
C7_ExampleAsStated ==
    \A i \in 1..Len(latest_analysis) :
        LET r == latest_analysis[i]
        IN  is_example(InputOf(r.region_id))
            => /\ example_volumes(r)
               /\ r.wsi = 6150
               /\ r.stress_level = "critical"
               /\ r.priority_score = 5655

\* C7 amended: the same region is analysed as rainfall_deviation 0.6,
\* groundwater_decline 0.65, population_factor 0.45, WSI 0.57, moderate,
\* daily need 6,075,000, available 787,500, deficit 5,287,500, 529 tankers,
\* priority 0.534, with WSI = 0.4 rd + 0.3 gd + 0.3 pf and
\* priority = 0.7 WSI + 0.3 pf.
C7_Example ==
    \A i \in 1..Len(latest_analysis) :
        LET r == latest_analysis[i]
        IN  is_example(InputOf(r.region_id))
            => /\ example_volumes(r)
               /\ r.wsi = 5700
               /\ r.stress_level = "moderate"
               /\ r.priority_score = 5340
               /\ follows_formulas(r)

C7_Witness ==
    \E i \in 1..Len(latest_analysis) : latest_analysis[i].region_id = "R001"

\* C8: after a successful /analyze of the batch B, latest_analysis holds
\* exactly one result per element of B, each the analysis of its region, and
\* nothing else, by priority_score descending with equal scores in input
\* order.
C8_ReplacedByStableSort ==
    (apc = "done" /\ aresponse.status_code = 200) =>
        LET n == Len(arequest)
        IN  /\ Len(latest_analysis) = n
            /\ \E f \in [1..n -> 1..n] :
                /\ \A i \in 1..n : \A j \in 1..n : i # j => f[i] # f[j]
                /\ \A i \in 1..n :
                     latest_analysis[i] = analyze_region(arequest[f[i]])
                /\ \A i \in 1..n : \A j \in 1..n :
                     i < j =>
                       \/ latest_analysis[i].priority_score
                            > latest_analysis[j].priority_score
                       \/ /\ latest_analysis[i].priority_score
                               = latest_analysis[j].priority_score
                          /\ f[i] < f[j]

C8_Witness ==
    /\ apc = "done" /\ aresponse.status_code = 200
    /\ Len(arequest) = 2
    /\ arequest[1].region_id = "R003" /\ arequest[2].region_id = "R002"
    /\ latest_analysis[1].priority_score = latest_analysis[2].priority_score
    /\ latest_analysis[1].region_id = "R003"

\* C9: /dashboard and /routes answer with the 'no data yet' placeholder
\* exactly when no /analyze has succeeded so far, whatever else happened,
\* rejected submissions included.
C9_PlaceholderIffNoSuccess ==
    [][/\ (dpc = "idle" /\ dpc' # "idle")
          => ((dpc' = "done" /\ is_placeholder(dresponse')) <=> ~succeeded)
       /\ (rpc = "idle" /\ rpc' # "idle")
          => ((rpc' = "done" /\ is_placeholder(rresponse')) <=> ~succeeded)
       /\ (dpc # "done" /\ dpc' = "done" /\ is_placeholder(dresponse'))
          => dpc = "idle"
       /\ (rpc # "done" /\ rpc' = "done" /\ is_placeholder(rresponse'))
          => rpc = "idle"]_vars

C9_Witness ==
    /\ succeeded
    /\ apc = "done" /\ aresponse.status_code # 200
    /\ dpc = "done" /\ ~is_placeholder(dresponse)
    /\ rpc = "done" /\ ~is_placeholder(rresponse)

\* C10: a region with population > 0 and groundwater_level in 0..100 has
\* deficit = population * (135 - 0.5 * groundwater_level) > 0 and at least
\* one tanker; zero tankers need groundwater_level >= 270; and when every
\* region of the batch has groundwater_level in 0..100 the routes list
\* includes every region.
C10_InRangeNeedsTankers ==
    LET in_range(r) == InputOf(r.region_id).groundwater_level \in 0..100
    IN  /\ \A i \in 1..Len(latest_analysis) :
             LET r == latest_analysis[i]
                 in == InputOf(r.region_id)
                 t == r.tanker_allocation
             IN  /\ (in.population > 0 /\ in_range(r))
                      => /\ 2 * t.deficit_litres
                              = in.population * LitreScale
                                 * (2 * LitresPerPerson - in.groundwater_level)
                         /\ t.deficit_litres > 0
                         /\ t.tankers_needed >= 1
                 /\ t.tankers_needed = 0 => in.groundwater_level >= 270
        /\ (/\ rpc = "done" /\ ~is_placeholder(rresponse)
            /\ \A i \in 1..Len(latest_analysis) : in_range(latest_analysis[i]))
           => Len(rresponse.routes) = Len(latest_analysis)

C10_Witness ==
    /\ rpc = "done" /\ ~is_placeholder(rresponse)
    /\ Len(latest_analysis) = 2
    /\ Len(rresponse.routes) = 2
    /\ \A i \in 1..2 :
          InputOf(latest_analysis[i].region_id).groundwater_level \in 0..100

====
